---- MODULE Spec2Model ----
(***************************************************************************)
(* Data quality audit: check generation (bedrock_client.py), check         *)
(* execution and summary (test_executor.py) and the per-dataset pipeline   *)
(* (main.py, audit_model).                                                 *)
(*                                                                         *)
(* A raw generator response is a sequence of lexical tokens: the bracket   *)
(* characters "[" and "]", the comma, a run of prose ("text", which holds  *)
(* no bracket) and atomic JSON lexemes (an object literal, a number, null, *)
(* a string literal; none of them holding a bracket character).            *)
(*                                                                         *)
(* main is the state of the driver (main.py, main): its position, the      *)
(* datasets to audit, the loop index, the accumulated results, the         *)
(* warehouse connection and the files written.  trace is the sequence of   *)
(* calls made to the collaborators, each tagged with the loop index.       *)
(***************************************************************************)
EXTENDS Integers, Sequences, FiniteSets, TLC

VARIABLES pc, response_text, test_definitions, error, test_results, idx,
          query_log, clock, summary, report, main, trace

vars == <<pc, response_text, test_definitions, error, test_results, idx,
          query_log, clock, summary, report, main, trace>>

(***************************************************************************)
(* Bounds of the model.                                                    *)
(***************************************************************************)
MaxTokens == 3
MaxProse == 1
MaxElems == 2
MaxRows == 6
MaxResults == 2
MaxDefects == 2
MaxModels == 2

(***************************************************************************)
(* JSON values.  Every value is a record of one shape; kind tells which    *)
(* part is meaningful.  A dict holds the five fields of interest, a field  *)
(* that is not a key of the dict being Absent; a JSON null value is Null,  *)
(* a JSON number value is Num.  A string is the sequence of its words.     *)
(***************************************************************************)
Absent == "<absent>"
Null == "<null>"
Num == "<number>"

required_fields ==
  <<"test_name", "test_category", "test_description", "test_query", "severity">>

NoFields ==
  [test_name |-> Absent, test_category |-> Absent, test_description |-> Absent,
   test_query |-> Absent, severity |-> Absent]

JObj(f) == [kind |-> "obj", fields |-> f, words |-> <<>>, elems |-> <<>>]
JStr(ws) == [kind |-> "str", fields |-> NoFields, words |-> ws, elems |-> <<>>]
JNum == [kind |-> "num", fields |-> NoFields, words |-> <<>>, elems |-> <<>>]
JNull == [kind |-> "null", fields |-> NoFields, words |-> <<>>, elems |-> <<>>]
JArr(es) == [kind |-> "arr", fields |-> NoFields, words |-> <<>>, elems |-> es]

Tok(t) == [tok |-> t, val |-> JNull]
AtomTok(v) == [tok |-> "atom", val |-> v]

SeqsUpTo(S, n) == UNION {[1..k -> S] : k \in 0..n}

(***************************************************************************)
(* The JSON lexemes the generator's response is built from.                *)
(***************************************************************************)
CheckUnique ==
  JObj([test_name |-> "unique_ids", test_category |-> "Uniqueness",
        test_description |-> "Unique Ids", test_query |-> "SELECT dup",
        severity |-> "CRITICAL"])
CheckFresh ==
  JObj([test_name |-> "fresh_rows", test_category |-> "Freshness",
        test_description |-> "Fresh Rows", test_query |-> "SELECT stale",
        severity |-> "HIGH"])
CheckNullDescription ==
  JObj([test_name |-> "null_desc", test_category |-> "Nullability",
        test_description |-> Null, test_query |-> "SELECT nulls",
        severity |-> "MEDIUM"])
CheckNoSeverity ==
  JObj([test_name |-> "no_severity", test_category |-> "Value Range",
        test_description |-> "Range", test_query |-> "SELECT range",
        severity |-> Absent])
CheckUrgent ==
  JObj([test_name |-> "urgent_dates", test_category |-> "Date Validity",
        test_description |-> "Dates", test_query |-> "SELECT dates",
        severity |-> "URGENT"])
StrPlain == JStr(<<"sorry">>)
StrAllFields == JStr(required_fields)

Atoms ==
  {CheckUnique, CheckFresh, CheckNullDescription, CheckNoSeverity, CheckUrgent,
   JNum, JNull, StrPlain, StrAllFields}

Alphabet ==
  {Tok("["), Tok("]"), Tok(","), Tok("text")} \cup {AtomTok(v) : v \in Atoms}

RECURSIVE CommaSep(_)
CommaSep(es) ==
  IF Len(es) = 0 THEN <<>>
  ELSE IF Len(es) = 1 THEN <<AtomTok(es[1])>>
  ELSE <<AtomTok(es[1]), Tok(",")>> \o CommaSep(Tail(es))

Framed(pre, es, post) == pre \o <<Tok("[")>> \o CommaSep(es) \o <<Tok("]")>> \o post

Prose == SeqsUpTo({Tok("text"), Tok("["), Tok("]")}, MaxProse)

ShortResponses == SeqsUpTo(Alphabet, MaxTokens)

FramedResponses ==
  {Framed(pre, es, post) : pre \in Prose, es \in SeqsUpTo(Atoms, MaxElems),
                            post \in Prose}

Responses == ShortResponses \cup FramedResponses

(***************************************************************************)
(* str.find and str.rfind on the token sequence, with Python's 0-based     *)
(* positions and -1 for "not found"; text[a:b].                            *)
(***************************************************************************)
(* Variant of find: the last occurrence instead of the first. *)
find_last(s, t) ==
  IF \E i \in 1..Len(s) : s[i].tok = t
  THEN (CHOOSE i \in 1..Len(s) :
          s[i].tok = t /\ \A j \in (i + 1)..Len(s) : s[j].tok # t) - 1
  ELSE -1

find(s, t) ==
  IF \E i \in 1..Len(s) : s[i].tok = t
  THEN (CHOOSE i \in 1..Len(s) :
          s[i].tok = t /\ \A j \in 1..(i - 1) : s[j].tok # t) - 1
  ELSE -1

rfind(s, t) ==
  IF \E i \in 1..Len(s) : s[i].tok = t
  THEN (CHOOSE i \in 1..Len(s) :
          s[i].tok = t /\ \A j \in (i + 1)..Len(s) : s[j].tok # t) - 1
  ELSE -1

Slice(s, a, b) == SubSeq(s, a + 1, b)

(***************************************************************************)
(* json.loads: value := atom | "[" "]" | "[" value ("," value)* "]", and   *)
(* nothing may follow the value.                                           *)
(***************************************************************************)
ParseFail == [ok |-> FALSE, val |-> JNull, next |-> 0]

RECURSIVE ParseValue(_, _), ParseElems(_, _, _)
ParseValue(s, i) ==
  IF i > Len(s) THEN ParseFail
  ELSE IF s[i].tok = "atom" THEN [ok |-> TRUE, val |-> s[i].val, next |-> i + 1]
  ELSE IF s[i].tok = "["
       THEN IF i + 1 <= Len(s) /\ s[i + 1].tok = "]"
            THEN [ok |-> TRUE, val |-> JArr(<<>>), next |-> i + 2]
            ELSE ParseElems(s, i + 1, <<>>)
  ELSE ParseFail

ParseElems(s, i, acc) ==
  LET v == ParseValue(s, i) IN
  IF ~v.ok \/ v.next > Len(s) THEN ParseFail
  ELSE IF s[v.next].tok = ","
       THEN ParseElems(s, v.next + 1, Append(acc, v.val))
  ELSE IF s[v.next].tok = "]"
       THEN [ok |-> TRUE, val |-> JArr(Append(acc, v.val)), next |-> v.next + 1]
  ELSE ParseFail

json_loads(s) ==
  LET r == ParseValue(s, 1) IN
  IF r.ok /\ r.next = Len(s) + 1
  THEN [ok |-> TRUE, val |-> r.val]
  ELSE [ok |-> FALSE, val |-> JNull]

(***************************************************************************)
(* `field in test`: key membership of a dict, substring of a str, element  *)
(* membership of a list; a TypeError for a number or null.                 *)
(***************************************************************************)
InRaises(test) == test.kind \in {"num", "null"}

FieldIn(field, test) ==
  CASE test.kind = "obj" -> test.fields[field] # Absent
    [] test.kind = "str" -> \E i \in 1..Len(test.words) : test.words[i] = field
    [] test.kind = "arr" ->
         \E i \in 1..Len(test.elems) :
            test.elems[i].kind = "str" /\ test.elems[i].words = <<field>>
    [] OTHER -> FALSE

AllRequiredIn(test) ==
  \A k \in 1..Len(required_fields) : FieldIn(required_fields[k], test)

Returned(tests) == [raised |-> FALSE, error |-> "", tests |-> tests]
Raised(e) == [raised |-> TRUE, error |-> e, tests |-> <<>>]

RECURSIVE validate_tests(_, _)
validate_tests(tests, validated_tests) ==
  IF Len(tests) = 0 THEN Returned(validated_tests)
  ELSE IF InRaises(tests[1]) THEN Raised("TypeError")
  ELSE IF AllRequiredIn(tests[1])
       THEN validate_tests(Tail(tests), Append(validated_tests, tests[1]))
  ELSE validate_tests(Tail(tests), validated_tests)

(* Variant of _parse_response: an empty list instead of an error. *)
parse_response_lenient(text) ==
  LET json_start == find(text, "[")
      json_end == rfind(text, "]") + 1
      json_str == Slice(text, json_start, json_end)
      tests == json_loads(json_str)
  IN IF json_start = -1 \/ json_end = 0 THEN Returned(<<>>)
     ELSE IF ~tests.ok THEN Returned(<<>>)
     ELSE validate_tests(tests.val.elems, <<>>)

parse_response(text) ==
  LET json_start == find(text, "[")
      json_end == rfind(text, "]") + 1
      json_str == Slice(text, json_start, json_end)
      tests == json_loads(json_str)
  IN IF json_start = -1 \/ json_end = 0 THEN Raised("ValueError")
     ELSE IF ~tests.ok THEN Raised("JSONDecodeError")
     ELSE validate_tests(tests.val.elems, <<>>)

(***************************************************************************)
(* generate_tests on the text the remote call returned: the parse error    *)
(* is logged and raised again.                                             *)
(***************************************************************************)
generate_tests(response) ==
  LET tests == parse_response(response) IN
  IF tests.raised THEN Raised(tests.error) ELSE Returned(tests.tests)

(***************************************************************************)
(* The warehouse: execute_query either raises or returns rows, each row an *)
(* ordered mapping written as a sequence of <<column, value>> pairs.       *)
(***************************************************************************)
MAX_DEFECT_EXAMPLES == 5

QueryRows(n) == [i \in 1..n |-> << <<"id", ToString(i)>>, <<"status", "bad">> >>]

QueryError == "relation does not exist"

QueryDurations == {0, 1}

QueryOutcomes ==
  {[raised |-> FALSE, error |-> "", rows |-> QueryRows(n)] : n \in 0..MaxRows}
    \cup {[raised |-> TRUE, error |-> QueryError, rows |-> <<>>]}

RECURSIVE Join(_, _)
Join(strs, sep) ==
  IF Len(strs) = 0 THEN ""
  ELSE IF Len(strs) = 1 THEN strs[1]
  ELSE strs[1] \o sep \o Join(Tail(strs), sep)

Min(a, b) == IF a < b THEN a ELSE b

(* Variant of format_defect_examples: the limit is not applied. *)
format_defect_examples_uncapped(query_results, limit) ==
  IF Len(query_results) = 0 THEN ""
  ELSE LET row_str(row) ==
             Join([c \in 1..Len(row) |-> row[c][1] \o "=" \o row[c][2]], ", ")
           examples == [r \in 1..Len(query_results) |-> row_str(query_results[r])]
       IN Join(examples, "; ")

format_defect_examples(query_results, limit) ==
  IF Len(query_results) = 0 THEN ""
  ELSE LET shown == SubSeq(query_results, 1, Min(limit, Len(query_results)))
           row_str(row) ==
             Join([c \in 1..Len(row) |-> row[c][1] \o "=" \o row[c][2]], ", ")
           examples == [r \in 1..Len(shown) |-> row_str(shown[r])]
       IN Join(examples, "; ")

(***************************************************************************)
(* str.lower on the descriptions in use; a value that is no string has no  *)
(* such method.                                                            *)
(***************************************************************************)
IsString(v) == v \notin {Absent, Null, Num}

Lower(s) ==
  CASE s = "Unique Ids" -> "unique ids"
    [] s = "Fresh Rows" -> "fresh rows"
    [] s = "Range" -> "range"
    [] s = "Dates" -> "dates"
    [] OTHER -> s

NoLowerError(v) ==
  IF v = Null THEN "'NoneType' object has no attribute 'lower'"
  ELSE "'int' object has no attribute 'lower'"

generate_notes(test_def, status, defect_count) ==
  LET test_category == test_def.fields["test_category"]
      description == test_def.fields["test_description"]
      n == ToString(defect_count)
  IN IF status = "PASS"
     THEN IF IsString(description)
          THEN [raised |-> FALSE, error |-> "",
                notes |-> "No issues found - " \o Lower(description)]
          ELSE [raised |-> TRUE, error |-> NoLowerError(description), notes |-> ""]
     ELSE [raised |-> FALSE, error |-> "", notes |->
       CASE test_category = "Uniqueness" ->
              "Found " \o n \o " duplicate record(s) - investigate data load process"
         [] test_category = "Nullability" ->
              "Found " \o n \o " record(s) with unexpected NULL values"
         [] test_category = "Referential Integrity" ->
              "Found " \o n \o " record(s) with referential integrity issues"
         [] test_category = "Date Validity" ->
              "Found " \o n \o " record(s) with invalid dates"
         [] test_category = "Business Logic" ->
              "Found " \o n \o " record(s) with business logic violations"
         [] test_category = "Value Range" ->
              "Found " \o n \o " record(s) with values outside expected range"
         [] test_category = "Data Consistency" ->
              "Found " \o n \o " record(s) with data consistency issues"
         [] OTHER -> "Found " \o n \o " defect(s)"]

(***************************************************************************)
(* _execute_single_test.  outcome is what execute_query does with the      *)
(* query, execution_timestamp the clock reading taken before the query.    *)
(* The result is either a raised exception or the CheckResult.             *)
(***************************************************************************)
NoResult ==
  [test_name |-> "", test_category |-> "", test_description |-> "",
   test_query |-> "", defect_count |-> 0, defect_examples |-> "", status |-> "",
   severity |-> "", notes |-> "", execution_timestamp |-> 0, model_name |-> ""]

(* Variant of the result dict: the description is stored lowercased. *)
CheckResult_lowered(test_def, defect_count, defect_examples, status, notes, execution_timestamp, model_name) ==
  [test_name |-> test_def.fields["test_name"],
   test_category |-> test_def.fields["test_category"],
   test_description |-> Lower(test_def.fields["test_description"]),
   test_query |-> test_def.fields["test_query"],
   defect_count |-> defect_count,
   defect_examples |-> defect_examples,
   status |-> status,
   severity |-> test_def.fields["severity"],
   notes |-> notes,
   execution_timestamp |-> execution_timestamp,
   model_name |-> model_name]

CheckResult(test_def, defect_count, defect_examples, status, notes, execution_timestamp, model_name) ==
  [test_name |-> test_def.fields["test_name"],
   test_category |-> test_def.fields["test_category"],
   test_description |-> test_def.fields["test_description"],
   test_query |-> test_def.fields["test_query"],
   defect_count |-> defect_count,
   defect_examples |-> defect_examples,
   status |-> status,
   severity |-> test_def.fields["severity"],
   notes |-> notes,
   execution_timestamp |-> execution_timestamp,
   model_name |-> model_name]

(* Variants of the error result: without the message; with count 0. *)
error_result_no_message(test_def, e, execution_timestamp, model_name) ==
  CheckResult(test_def, -1, "", "ERROR", "Test execution failed",
              execution_timestamp, model_name)

error_result_zero_defects(test_def, e, execution_timestamp, model_name) ==
  CheckResult(test_def, 0, "", "ERROR", "Test execution failed: " \o e,
              execution_timestamp, model_name)

error_result(test_def, e, execution_timestamp, model_name) ==
  CheckResult(test_def, -1, "", "ERROR", "Test execution failed: " \o e,
              execution_timestamp, model_name)

(* The body of the try block: the exception raised in it, or the result. *)
try_execute(test_def, model_name, outcome, execution_timestamp) ==
  IF outcome.raised
  THEN [raised |-> TRUE, error |-> outcome.error, result |-> NoResult]
  ELSE LET defect_count == Len(outcome.rows)
           defect_examples ==
             IF defect_count > 0
             THEN format_defect_examples(outcome.rows, MAX_DEFECT_EXAMPLES)
             ELSE ""
           status == IF defect_count = 0 THEN "PASS" ELSE "FAIL"
           notes == generate_notes(test_def, status, defect_count)
       IN IF notes.raised
          THEN [raised |-> TRUE, error |-> notes.error, result |-> NoResult]
          ELSE [raised |-> FALSE, error |-> "",
                result |-> CheckResult(test_def, defect_count, defect_examples,
                                       status, notes.notes, execution_timestamp,
                                       model_name)]

MissingKey(test_def) ==
  \E k \in 1..Len(required_fields) : test_def.fields[required_fields[k]] = Absent

(* Variant of _execute_single_test: the try block without its except. *)
execute_single_test_no_except(test_def, model_name, outcome, execution_timestamp) ==
  IF test_def.kind # "obj"
  THEN [raised |-> TRUE, error |-> "TypeError", result |-> NoResult]
  ELSE IF MissingKey(test_def)
  THEN [raised |-> TRUE, error |-> "KeyError", result |-> NoResult]
  ELSE try_execute(test_def, model_name, outcome, execution_timestamp)

execute_single_test(test_def, model_name, outcome, execution_timestamp) ==
  IF test_def.kind # "obj"
  THEN [raised |-> TRUE, error |-> "TypeError", result |-> NoResult]
  ELSE IF MissingKey(test_def)
  THEN [raised |-> TRUE, error |-> "KeyError", result |-> NoResult]
  ELSE LET try == try_execute(test_def, model_name, outcome, execution_timestamp)
       IN IF try.raised
          THEN [raised |-> FALSE, error |-> "",
                result |-> error_result(test_def, try.error, execution_timestamp,
                                        model_name)]
          ELSE try

(***************************************************************************)
(* get_summary: a fold over the result list.                               *)
(***************************************************************************)
RECURSIVE sum(_)
sum(xs) == IF Len(xs) = 0 THEN 0 ELSE xs[1] + sum(Tail(xs))

Count(flags) == sum([i \in 1..Len(flags) |-> IF flags[i] THEN 1 ELSE 0])

(* Variant of total_defects: every defect_count summed, the -1 included. *)
total_defects_signed(results) ==
  sum([i \in 1..Len(results) |-> results[i].defect_count])

total_defects(results) ==
  LET positive(r) == r.defect_count > 0
      counted == SelectSeq(results, positive)
  IN sum([i \in 1..Len(counted) |-> counted[i].defect_count])

(* Variant of critical_failures: the status is not looked at. *)
critical_failures_any_status(results) ==
  Count([i \in 1..Len(results) |-> results[i].severity = "CRITICAL"])

critical_failures(results) ==
  Count([i \in 1..Len(results) |->
           results[i].status = "FAIL" /\ results[i].severity = "CRITICAL"])

high_failures(results) ==
  Count([i \in 1..Len(results) |->
           results[i].status = "FAIL" /\ results[i].severity = "HIGH"])

get_summary(results) ==
  [total_tests |-> Len(results),
   passed |-> Count([i \in 1..Len(results) |-> results[i].status = "PASS"]),
   failed |-> Count([i \in 1..Len(results) |-> results[i].status = "FAIL"]),
   errors |-> Count([i \in 1..Len(results) |-> results[i].status = "ERROR"]),
   total_defects |-> total_defects(results),
   critical_failures |-> critical_failures(results),
   high_failures |-> high_failures(results)]

(***************************************************************************)
(* State shared by the specifications.                                     *)
(***************************************************************************)
ModelName == "orders"

NoError == [at |-> "", type |-> ""]

NoSummary ==
  [total_tests |-> -1, passed |-> -1, failed |-> -1, errors |-> -1,
   total_defects |-> -1, critical_failures |-> -1, high_failures |-> -1]

NoReport == [written |-> FALSE, complete |-> FALSE, model_name |-> "", rows |-> <<>>]

NoSummaryReport == [written |-> FALSE, complete |-> FALSE, rows |-> <<>>]

(* main's state while audit_model runs for one dataset on an open connection. *)
AuditOf(models) ==
  [pc |-> "audit", models_to_audit |-> models, i |-> 1, all_results |-> <<>>,
   connection |-> "open", reports |-> <<>>, summary_report |-> NoSummaryReport]

model_name == main.models_to_audit[main.i]

Event(ev, arg, ok) == [ev |-> ev, i |-> main.i, arg |-> arg, ok |-> ok]

Log(ev, arg, ok) == trace' = Append(trace, Event(ev, arg, ok))

(***************************************************************************)
(* generate_tests applied to every bounded response text.                  *)
(***************************************************************************)
InitParse ==
  /\ pc = "generate_tests"
  /\ response_text \in Responses
  /\ test_definitions = <<>>
  /\ error = NoError
  /\ test_results = <<>>
  /\ idx = 0
  /\ query_log = <<>>
  /\ clock = 0
  /\ summary = NoSummary
  /\ report = NoReport
  /\ main = AuditOf(<<ModelName>>)
  /\ trace = <<>>

GenerateTestsOf ==
  /\ pc = "generate_tests"
  /\ LET tests == generate_tests(response_text) IN
       IF tests.raised
       THEN /\ error' = [at |-> "generate_tests", type |-> tests.error]
            /\ pc' = "failed"
            /\ UNCHANGED test_definitions
       ELSE /\ test_definitions' = tests.tests
            /\ pc' = "execute_tests"
            /\ UNCHANGED error
  /\ UNCHANGED <<response_text, test_results, idx, query_log, clock, summary,
                 report, main, trace>>

NextParse == GenerateTestsOf

SpecParse == InitParse /\ [][NextParse]_vars

(***************************************************************************)
(* audit_model for one dataset: the collaborators' steps 1-4, generation,  *)
(* the execute_tests loop (one iteration per step), summary and report.    *)
(***************************************************************************)
CollectSteps ==
  <<"parse_model", "get_table_metadata", "get_table_stats", "get_sample_data">>

StepAfter(step) ==
  CASE step = "parse_model" -> "get_table_metadata"
    [] step = "get_table_metadata" -> "get_table_stats"
    [] step = "get_table_stats" -> "get_sample_data"
    [] step = "get_sample_data" -> "generate_tests"

EnterAudit ==
  /\ pc = "parse_model"
  /\ response_text = <<>>
  /\ test_definitions = <<>>
  /\ error = NoError
  /\ test_results = <<>>
  /\ idx = 0
  /\ query_log = <<>>
  /\ summary = NoSummary
  /\ report = NoReport

Init ==
  /\ EnterAudit
  /\ clock = 0
  /\ main = AuditOf(<<ModelName>>)
  /\ trace = <<>>

Fail(at, type) ==
  /\ error' = [at |-> at, type |-> type]
  /\ pc' = "failed"

CollectReturns ==
  /\ \E k \in 1..Len(CollectSteps) : pc = CollectSteps[k]
  /\ pc' = StepAfter(pc)
  /\ Log("collect", pc, TRUE)
  /\ UNCHANGED <<response_text, test_definitions, error, test_results, idx,
                 query_log, clock, summary, report, main>>

CollectRaises ==
  /\ \E k \in 1..Len(CollectSteps) : pc = CollectSteps[k]
  /\ Fail(pc, "Exception")
  /\ Log("collect", pc, FALSE)
  /\ UNCHANGED <<response_text, test_definitions, test_results, idx, query_log,
                 clock, summary, report, main>>

InvokeBedrockRaises ==
  /\ pc = "generate_tests"
  /\ Fail("generate_tests", "BedrockError")
  /\ Log("invoke", "", FALSE)
  /\ UNCHANGED <<response_text, test_definitions, test_results, idx, query_log,
                 clock, summary, report, main>>

GenerateTestsFrom(responses) ==
  /\ pc = "generate_tests"
  /\ \E response \in responses :
       LET tests == generate_tests(response) IN
         IF tests.raised
         THEN /\ Fail("generate_tests", tests.error)
              /\ UNCHANGED <<test_definitions, idx>>
         ELSE /\ test_definitions' = tests.tests
              /\ idx' = 1
              /\ pc' = "execute_tests"
              /\ UNCHANGED error
  /\ Log("invoke", "", TRUE)
  /\ UNCHANGED <<response_text, test_results, query_log, clock, summary, report,
                 main>>

GenerateTests == GenerateTestsFrom(Responses)

QueryRecord(sql, outcome, started, finished) ==
  [sql |-> sql, raised |-> outcome.raised, error |-> outcome.error,
   nrows |-> Len(outcome.rows), started |-> started, finished |-> finished]

(* Variant of the loop of execute_tests: the list is walked from its end. *)
current_test_reversed(definitions, k) == definitions[Len(definitions) + 1 - k]

(* for test_def in test_definitions: the k-th iteration's test_def. *)
current_test(definitions, k) == definitions[k]

ExecuteSingleTestWith(outcomes, durations) ==
  /\ pc = "execute_tests"
  /\ idx <= Len(test_definitions)
  /\ \E outcome \in outcomes, duration \in durations :
       LET test_def == current_test(test_definitions, idx)
           r == execute_single_test(test_def, model_name, outcome, clock)
       IN IF r.raised
          THEN /\ Fail("execute_tests", r.error)
               /\ UNCHANGED <<test_results, idx, query_log, clock, trace>>
          ELSE /\ test_results' = Append(test_results, r.result)
               /\ idx' = idx + 1
               /\ query_log' =
                    Append(query_log,
                           QueryRecord(test_def.fields["test_query"], outcome,
                                       clock, clock + duration))
               /\ clock' = clock + duration
               /\ Log("query", test_def.fields["test_query"], ~outcome.raised)
               /\ UNCHANGED <<pc, error>>
  /\ UNCHANGED <<response_text, test_definitions, summary, report, main>>

ExecuteSingleTest == ExecuteSingleTestWith(QueryOutcomes, QueryDurations)

ExecuteTestsReturns ==
  /\ pc = "execute_tests"
  /\ idx > Len(test_definitions)
  /\ pc' = "get_summary"
  /\ UNCHANGED <<response_text, test_definitions, error, test_results, idx,
                 query_log, clock, summary, report, main, trace>>

GetSummary ==
  /\ pc = "get_summary"
  /\ summary' = get_summary(test_results)
  /\ pc' = "write_report"
  /\ UNCHANGED <<response_text, test_definitions, error, test_results, idx,
                 query_log, clock, report, main, trace>>

ReportRow(result) ==
  [test_name |-> result.test_name,
   test_category |-> result.test_category,
   test_description |-> result.test_description,
   test_query |-> result.test_query,
   defect_count |-> result.defect_count,
   defect_examples |-> result.defect_examples,
   status |-> result.status,
   severity |-> result.severity,
   notes |-> result.notes,
   execution_timestamp |-> result.execution_timestamp]

write_report(results, name) ==
  [written |-> TRUE, complete |-> TRUE, model_name |-> name,
   rows |-> [i \in 1..Len(results) |-> ReportRow(results[i])]]

(* The file left behind when write_report raises: none when open() failed, *)
(* else the header and the rows written before the failure.                *)
FailedReports(results, name) ==
  {NoReport} \cup
    {[written |-> TRUE, complete |-> FALSE, model_name |-> name,
      rows |-> [i \in 1..k |-> ReportRow(results[i])]] : k \in {0, Len(results)}}

WriteReport ==
  /\ pc = "write_report"
  /\ report' = write_report(test_results, model_name)
  /\ pc' = "done"
  /\ Log("report", model_name, TRUE)
  /\ UNCHANGED <<response_text, test_definitions, error, test_results, idx,
                 query_log, clock, summary, main>>

WriteReportRaises ==
  /\ pc = "write_report"
  /\ report' \in FailedReports(test_results, model_name)
  /\ Fail("write_report", "OSError")
  /\ Log("report", model_name, FALSE)
  /\ UNCHANGED <<response_text, test_definitions, test_results, idx, query_log,
                 clock, summary, main>>

Next ==
  \/ CollectReturns
  \/ CollectRaises
  \/ InvokeBedrockRaises
  \/ GenerateTests
  \/ ExecuteSingleTest
  \/ ExecuteTestsReturns
  \/ GetSummary
  \/ WriteReport
  \/ WriteReportRaises

Spec == Init /\ [][Next]_vars

(***************************************************************************)
(* main: one run over a list of datasets.  The connection is opened by the *)
(* with statement, tested, then audit_model runs for each dataset in turn; *)
(* an Exception of one audit is caught and the loop continues; leaving the *)
(* with block, by any way, calls __exit__.                                 *)
(***************************************************************************)
MART_MODELS ==
  <<"customers", "orders", "order_items", "products", "supplies", "locations">>

Models == {"customers", "orders"}

ModelLists == SeqsUpTo(Models, MaxModels) \ {<<>>}

models_to_audit(model_names) ==
  IF model_names # <<>> THEN model_names ELSE MART_MODELS

MainResponses ==
  {Framed(<<>>, <<>>, <<>>),
   Framed(<<>>, <<CheckUnique, CheckFresh>>, <<>>),
   <<Tok("text")>>}

MainQueryOutcomes ==
  {[raised |-> FALSE, error |-> "", rows |-> QueryRows(1)],
   [raised |-> TRUE, error |-> QueryError, rows |-> <<>>]}

MainQueryDurations == {0}

(* Variant of __exit__: the connection is left as it is. *)
with_exit_leaves_open(connection) == connection

(* __exit__ calls close(), which closes a connection that was opened. *)
with_exit(connection) == IF connection = "open" THEN "closed" ELSE connection

(* Variant of the except clause: break, the loop ends. *)
after_exception_break(i, n) == n + 1

(* Variant of the except clause: the same dataset is audited again. *)
after_exception_retry(i, n) == i

(* except Exception: continue, the loop takes the next dataset. *)
after_exception(i, n) == i + 1

(* Variant of the assignment: all_results keeps one entry per audit, as a *)
(* list would.                                                           *)
dict_append(dict, key, value) == Append(dict, [key |-> key, value |-> value])

(* all_results[model_name] = test_results: a dict has one entry per key,  *)
(* in the order in which the keys were first assigned.                    *)
RECURSIVE dict_set(_, _, _)
dict_set(dict, key, value) ==
  IF dict = <<>> THEN <<[key |-> key, value |-> value]>>
  ELSE IF Head(dict).key = key
       THEN <<[key |-> key, value |-> value]>> \o Tail(dict)
       ELSE <<Head(dict)>> \o dict_set(Tail(dict), key, value)

(* Variant of the row: total_defects adds every defect_count. *)
summary_row_signed(name, results) ==
  [model_name |-> name,
   total_tests |-> Len(results),
   passed |-> Count([i \in 1..Len(results) |-> results[i].status = "PASS"]),
   failed |-> Count([i \in 1..Len(results) |-> results[i].status = "FAIL"]),
   errors |-> Count([i \in 1..Len(results) |-> results[i].status = "ERROR"]),
   total_defects |-> sum([i \in 1..Len(results) |-> results[i].defect_count]),
   critical_failures |->
     Count([i \in 1..Len(results) |->
              results[i].status = "FAIL" /\ results[i].severity = "CRITICAL"]),
   high_failures |->
     Count([i \in 1..Len(results) |->
              results[i].status = "FAIL" /\ results[i].severity = "HIGH"])]

summary_row(name, results) ==
  [model_name |-> name,
   total_tests |-> Len(results),
   passed |-> Count([i \in 1..Len(results) |-> results[i].status = "PASS"]),
   failed |-> Count([i \in 1..Len(results) |-> results[i].status = "FAIL"]),
   errors |-> Count([i \in 1..Len(results) |-> results[i].status = "ERROR"]),
   total_defects |->
     sum([i \in 1..Len(results) |->
            IF results[i].defect_count > 0 THEN results[i].defect_count ELSE 0]),
   critical_failures |->
     Count([i \in 1..Len(results) |->
              results[i].status = "FAIL" /\ results[i].severity = "CRITICAL"]),
   high_failures |->
     Count([i \in 1..Len(results) |->
              results[i].status = "FAIL" /\ results[i].severity = "HIGH"])]

write_summary_report(all_results) ==
  [written |-> TRUE, complete |-> TRUE,
   rows |-> [k \in 1..Len(all_results) |->
               summary_row(all_results[k].key, all_results[k].value)]]

InitMain ==
  /\ pc = "idle"
  /\ response_text = <<>>
  /\ test_definitions = <<>>
  /\ error = NoError
  /\ test_results = <<>>
  /\ idx = 0
  /\ query_log = <<>>
  /\ clock = 0
  /\ summary = NoSummary
  /\ report = NoReport
  /\ \E model_names \in ModelLists :
       main = [pc |-> "connect", models_to_audit |-> models_to_audit(model_names),
               i |-> 1, all_results |-> <<>>, connection |-> "none",
               reports |-> <<>>, summary_report |-> NoSummaryReport]
  /\ trace = <<>>

Pipeline ==
  <<pc, response_text, test_definitions, error, test_results, idx, query_log,
    clock, summary, report>>

Connect ==
  /\ main.pc = "connect"
  /\ main' = [main EXCEPT !.pc = "test_connection", !.connection = "open"]
  /\ Log("connect", "", TRUE)
  /\ UNCHANGED Pipeline

ConnectRaises ==
  /\ main.pc = "connect"
  /\ main' = [main EXCEPT !.pc = "raised"]
  /\ Log("connect", "", FALSE)
  /\ UNCHANGED Pipeline

(* What SELECT 1 does: fetches 1, fetches something else, or raises. *)
ConnectionTestPasses == {"one"}

ConnectionTestFailures == {"other", "raises"}

(* Variant of test_connection: the outcome is not looked at. *)
test_connection_unchecked(outcome) == TRUE

(* return result[0] == 1, and False from the except clause. *)
test_connection(outcome) == outcome = "one"

TestConnectionWith(outcomes) ==
  /\ main.pc = "test_connection"
  /\ \E outcome \in outcomes :
       /\ main' = [main EXCEPT
                     !.pc = IF test_connection(outcome) THEN "loop" ELSE "test_failed"]
       /\ Log("test_connection", outcome, outcome \in ConnectionTestPasses)
  /\ UNCHANGED Pipeline

TestConnection == TestConnectionWith(ConnectionTestPasses)

TestConnectionFails == TestConnectionWith(ConnectionTestFailures)

StartAudit ==
  /\ main.pc = "loop"
  /\ main.i <= Len(main.models_to_audit)
  /\ main' = [main EXCEPT !.pc = "audit"]
  /\ pc' = "parse_model"
  /\ response_text' = <<>>
  /\ test_definitions' = <<>>
  /\ error' = NoError
  /\ test_results' = <<>>
  /\ idx' = 0
  /\ query_log' = <<>>
  /\ summary' = NoSummary
  /\ report' = NoReport
  /\ UNCHANGED <<clock, trace>>

Files(reports, i, file) ==
  IF file.written THEN Append(reports, [i |-> i, file |-> file]) ELSE reports

AuditReturns ==
  /\ main.pc = "audit"
  /\ pc = "done"
  /\ main' = [main EXCEPT
                !.pc = "loop",
                !.i = main.i + 1,
                !.all_results = dict_set(main.all_results, model_name, test_results),
                !.reports = Files(main.reports, main.i, report)]
  /\ pc' = "idle"
  /\ Log("returned", model_name, TRUE)
  /\ UNCHANGED <<response_text, test_definitions, error, test_results, idx,
                 query_log, clock, summary, report>>

AuditRaises ==
  /\ main.pc = "audit"
  /\ pc = "failed"
  /\ main' = [main EXCEPT
                !.pc = "loop",
                !.i = after_exception(main.i, Len(main.models_to_audit)),
                !.reports = Files(main.reports, main.i, report)]
  /\ pc' = "idle"
  /\ Log("caught", model_name, FALSE)
  /\ UNCHANGED <<response_text, test_definitions, error, test_results, idx,
                 query_log, clock, summary, report>>

(* A BaseException that is not an Exception (KeyboardInterrupt, SystemExit) *)
(* passes both except clauses and leaves the with block.                    *)
AuditInterrupted ==
  /\ main.pc = "audit"
  /\ pc \notin {"done", "failed"}
  /\ main' = [main EXCEPT !.pc = "interrupted"]
  /\ pc' = "idle"
  /\ Log("interrupt", model_name, FALSE)
  /\ UNCHANGED <<response_text, test_definitions, error, test_results, idx,
                 query_log, clock, summary, report>>

(* Where control goes once __exit__ has run: on after the with block, out *)
(* of main by the return, or out of main with the exception.              *)
AfterWith(at) ==
  CASE at = "loop" -> "after_with"
    [] at = "test_failed" -> "returned"
    [] at = "interrupted" -> "raised"

LeaveWith ==
  /\ \/ main.pc = "loop" /\ main.i > Len(main.models_to_audit)
     \/ main.pc \in {"test_failed", "interrupted"}
  /\ main' = [main EXCEPT !.pc = AfterWith(main.pc),
                          !.connection = with_exit(main.connection)]
  /\ Log("close", "", TRUE)
  /\ UNCHANGED Pipeline

WriteSummaryReport ==
  /\ main.pc = "after_with"
  /\ Len(main.all_results) > 1
  /\ main' = [main EXCEPT !.pc = "returned",
                          !.summary_report = write_summary_report(main.all_results)]
  /\ Log("summary_report", "", TRUE)
  /\ UNCHANGED Pipeline

WriteSummaryReportRaises ==
  /\ main.pc = "after_with"
  /\ Len(main.all_results) > 1
  /\ \E file \in {NoSummaryReport, [NoSummaryReport EXCEPT !.written = TRUE]} :
       main' = [main EXCEPT !.pc = "raised", !.summary_report = file]
  /\ Log("summary_report", "", FALSE)
  /\ UNCHANGED Pipeline

NoSummaryReportNeeded ==
  /\ main.pc = "after_with"
  /\ ~(Len(main.all_results) > 1)
  /\ main' = [main EXCEPT !.pc = "returned"]
  /\ UNCHANGED <<trace, Pipeline>>

MainGenerateTests == GenerateTestsFrom(MainResponses)

MainExecuteSingleTest == ExecuteSingleTestWith(MainQueryOutcomes, MainQueryDurations)

NextMain ==
  \/ Connect
  \/ ConnectRaises
  \/ TestConnection
  \/ TestConnectionFails
  \/ StartAudit
  \/ CollectReturns
  \/ CollectRaises
  \/ InvokeBedrockRaises
  \/ MainGenerateTests
  \/ MainExecuteSingleTest
  \/ ExecuteTestsReturns
  \/ GetSummary
  \/ WriteReport
  \/ WriteReportRaises
  \/ AuditReturns
  \/ AuditRaises
  \/ AuditInterrupted
  \/ LeaveWith
  \/ WriteSummaryReport
  \/ WriteSummaryReportRaises
  \/ NoSummaryReportNeeded

SpecMain == InitMain /\ [][NextMain]_vars

(***************************************************************************)
(* get_summary, then write_summary_report for the same dataset, applied to *)
(* every bounded list of results, consistent or not.                       *)
(***************************************************************************)
Severities == {"CRITICAL", "HIGH", "MEDIUM", "LOW"}

AnyResults ==
  {[NoResult EXCEPT !.status = s, !.defect_count = d, !.severity = v] :
     s \in {"PASS", "FAIL", "ERROR"}, d \in -1..MaxDefects, v \in Severities}

InitSummary ==
  /\ pc = "get_summary"
  /\ response_text = <<>>
  /\ test_definitions = <<>>
  /\ error = NoError
  /\ test_results \in SeqsUpTo(AnyResults, MaxResults)
  /\ idx = 0
  /\ query_log = <<>>
  /\ clock = 0
  /\ summary = NoSummary
  /\ report = NoReport
  /\ main = AuditOf(<<ModelName>>)
  /\ trace = <<>>

WriteSummaryRow ==
  /\ pc = "write_report"
  /\ main' = [main EXCEPT
                !.summary_report =
                  write_summary_report(dict_set(<<>>, model_name, test_results))]
  /\ pc' = "done"
  /\ UNCHANGED <<response_text, test_definitions, error, test_results, idx,
                 query_log, clock, summary, report, trace>>

NextSummary == GetSummary \/ WriteSummaryRow

SpecSummary == InitSummary /\ [][NextSummary]_vars

(***************************************************************************)
(* Vocabulary of the properties.                                           *)
(***************************************************************************)
FieldNames == {required_fields[k] : k \in 1..Len(required_fields)}

HasAllKeys(v) == v.kind = "obj" /\ \A f \in FieldNames : v.fields[f] # Absent

IsCompleteCheck(v) ==
  v.kind = "obj" /\ \A f \in FieldNames : v.fields[f] \notin {Absent, Null}

HasOpen(text) == \E i \in 1..Len(text) : text[i].tok = "["
HasClose(text) == \E i \in 1..Len(text) : text[i].tok = "]"

Payload(text) ==
  LET opens == {i \in 1..Len(text) : text[i].tok = "["}
      closes == {i \in 1..Len(text) : text[i].tok = "]"}
      first == CHOOSE i \in opens : \A j \in opens : i <= j
      last == CHOOSE i \in closes : \A j \in closes : j <= i
  IN [i \in 1..(last - first + 1) |-> text[first + i - 1]]

PayloadIsArray(text) ==
  HasOpen(text) /\ HasClose(text) /\ json_loads(Payload(text)).ok

Generated == pc # "generate_tests"

AllChecksAreDicts ==
  \A i \in 1..Len(test_definitions) : HasAllKeys(test_definitions[i])

ExecuteTestsReturned == pc \in {"get_summary", "write_report", "done"}

(***************************************************************************)
(* C1: for a batch of N CheckSpecs that each have the five fields, and     *)
(* whatever each query does, execute_tests does not raise and returns      *)
(* exactly N results, the i-th carrying the i-th CheckSpec's name, every   *)
(* status being PASS, FAIL or ERROR.                                       *)
(***************************************************************************)
C1_OneResultPerCheck ==
  AllChecksAreDicts =>
    /\ ~(pc = "failed" /\ error.at = "execute_tests")
    /\ pc = "execute_tests" => Len(test_results) = idx - 1
    /\ ExecuteTestsReturned => Len(test_results) = Len(test_definitions)
    /\ \A i \in 1..Len(test_results) :
         /\ i <= Len(test_definitions)
         /\ test_results[i].test_name = test_definitions[i].fields["test_name"]
         /\ test_results[i].status \in {"PASS", "FAIL", "ERROR"}

C1_Witness ==
  /\ pc = "get_summary"
  /\ Len(test_definitions) = MaxElems
  /\ Len(test_results) = MaxElems
  /\ test_results[1].test_name # test_results[2].test_name
  /\ query_log[1].raised
  /\ ~query_log[2].raised

(***************************************************************************)
(* C2: in every result the executor produced, status is PASS exactly when  *)
(* defect_count = 0, FAIL exactly when defect_count > 0 and ERROR exactly  *)
(* when defect_count = -1.                                                 *)
(***************************************************************************)
C2_StatusMatchesDefectCount ==
  \A i \in 1..Len(test_results) :
    LET r == test_results[i] IN
      /\ r.status = "PASS" <=> r.defect_count = 0
      /\ r.status = "FAIL" <=> r.defect_count > 0
      /\ r.status = "ERROR" <=> r.defect_count = -1
      /\ r.defect_count >= -1

C2_Witness ==
  /\ Len(test_results) = 2
  /\ test_results[1].status = "ERROR"
  /\ test_results[2].status = "FAIL"
  /\ test_results[2].defect_count = MaxRows

(***************************************************************************)
(* C3: a check whose query raised gets the result ERROR, defect_count -1,  *)
(* empty defect_examples and notes "Test execution failed: " followed by   *)
(* the error message; the exception does not leave execute_tests, and the  *)
(* later checks of the batch are executed and get their own results.       *)
(***************************************************************************)
C3_QueryErrorIsolated ==
  /\ \A i \in 1..Len(test_results) :
       query_log[i].raised =>
         /\ test_results[i].status = "ERROR"
         /\ test_results[i].defect_count = -1
         /\ test_results[i].defect_examples = ""
         /\ test_results[i].notes = "Test execution failed: " \o query_log[i].error
  /\ (pc = "failed" /\ error.at = "execute_tests") =>
       /\ idx <= Len(test_definitions)
       /\ ~HasAllKeys(test_definitions[idx])
       /\ Len(test_results) = idx - 1
  /\ (AllChecksAreDicts /\ ExecuteTestsReturned) =>
       Len(test_results) = Len(test_definitions)

C3_Witness ==
  /\ pc = "get_summary"
  /\ Len(test_results) = 2
  /\ query_log[1].raised
  /\ test_results[1].notes = "Test execution failed: relation does not exist"
  /\ ~query_log[2].raised
  /\ test_results[2].status = "PASS"

(***************************************************************************)
(* C4: for every check the generator retained, a query that returned n     *)
(* rows without raising gives defect_count n, PASS when n = 0 and FAIL     *)
(* when n > 0, and an ERROR result arises only from a query that raised.   *)
(***************************************************************************)
C4_ErrorOnlyFromQuery ==
  \A i \in 1..Len(test_results) :
    /\ ~query_log[i].raised =>
         /\ test_results[i].defect_count = query_log[i].nrows
         /\ test_results[i].status =
              (IF query_log[i].nrows = 0 THEN "PASS" ELSE "FAIL")
    /\ test_results[i].status = "ERROR" => query_log[i].raised

(***************************************************************************)
(* C5: whenever the extracted payload parses as a JSON array, validation   *)
(* returns a list and does not raise, whatever the elements are, and the   *)
(* elements that have the five fields are in the returned list.            *)
(***************************************************************************)
C5_ArrayPayloadNeverRaises ==
  (Generated /\ PayloadIsArray(response_text)) =>
    /\ pc = "execute_tests"
    /\ LET elems == json_loads(Payload(response_text)).val.elems IN
         \A i \in 1..Len(elems) :
           HasAllKeys(elems[i]) =>
             \E j \in 1..Len(test_definitions) : test_definitions[j] = elems[i]

(***************************************************************************)
(* C6: every CheckSpec returned by generate_tests is an object in which    *)
(* all five fields are present and non-null.                               *)
(***************************************************************************)
C6_RetainedChecksComplete ==
  \A i \in 1..Len(test_definitions) : IsCompleteCheck(test_definitions[i])

(***************************************************************************)
(* C7.  A response made of prose, an array holding one complete check      *)
(* object and one object missing a required field (in either order), and   *)
(* trailing prose.                                                         *)
(***************************************************************************)
CompleteChecks == {CheckUnique, CheckFresh}

OneGoodOneBad ==
  {<<c, CheckNoSeverity>> : c \in CompleteChecks}
    \cup {<<CheckNoSeverity, c>> : c \in CompleteChecks}

GoodOf(es) == IF es[1] \in CompleteChecks THEN es[1] ELSE es[2]

NoOpen(prose) == ~HasOpen(prose)
NoClose(prose) == ~HasClose(prose)

(* C7 as claimed: with arbitrary prose on both sides the response yields  *)
(* exactly the one complete CheckSpec.                                    *)
C7_AnyProseYieldsTheCompleteCheck ==
  Generated =>
    \A pre \in Prose, post \in Prose, es \in OneGoodOneBad :
      response_text = Framed(pre, es, post) =>
        pc = "execute_tests" /\ test_definitions = <<GoodOf(es)>>

(* C7 as amended: the payload is the tokens from the first "[" to the     *)
(* last "]" inclusive, so the response yields exactly the one complete    *)
(* CheckSpec when the leading prose holds no "[" and the trailing prose   *)
(* holds no "]".                                                          *)
C7_BracketFreeProseYieldsTheCompleteCheck ==
  Generated =>
    \A pre \in Prose, post \in Prose, es \in OneGoodOneBad :
      (response_text = Framed(pre, es, post) /\ NoOpen(pre) /\ NoClose(post)) =>
        /\ Payload(response_text) = Framed(<<>>, es, <<>>)
        /\ pc = "execute_tests"
        /\ test_definitions = <<GoodOf(es)>>

C7_Witness ==
  /\ pc = "execute_tests"
  /\ response_text =
       Framed(<<Tok("text")>>, <<CheckUnique, CheckNoSeverity>>, <<Tok("text")>>)
  /\ test_definitions = <<CheckUnique>>

(***************************************************************************)
(* C8: a response with no "[" or no "]", or whose bracket-delimited        *)
(* payload is not valid JSON, makes generate_tests fail with an error      *)
(* raised to its caller; no list, empty or partial, is returned.           *)
(***************************************************************************)
C8_MalformedResponseFails ==
  (Generated /\ ~PayloadIsArray(response_text)) =>
    /\ pc = "failed"
    /\ error.at = "generate_tests"
    /\ error.type \in {"ValueError", "JSONDecodeError"}
    /\ test_definitions = <<>>

C8_Witness ==
  /\ pc = "failed"
  /\ response_text = <<Tok("text"), Tok("]")>>
  /\ error.type = "ValueError"

(***************************************************************************)
(* C9: total_defects is the sum of defect_count over exactly the results   *)
(* with defect_count > 0; a result with defect_count -1 contributes 0, so  *)
(* the total is never negative and is what it would be without the         *)
(* errored results.                                                        *)
(***************************************************************************)
RECURSIVE SumOver(_, _)
SumOver(I, f) ==
  IF I = {} THEN 0
  ELSE LET i == CHOOSE j \in I : TRUE IN f[i] + SumOver(I \ {i}, f)

Summarised == pc = "write_report"

C9_TotalDefectsSumsPositiveCounts ==
  Summarised =>
    LET counts == [i \in 1..Len(test_results) |-> test_results[i].defect_count]
        positive == {i \in 1..Len(test_results) : counts[i] > 0}
        not_errored == {i \in 1..Len(test_results) : counts[i] # -1}
    IN /\ summary.total_defects = SumOver(positive, counts)
       /\ summary.total_defects = SumOver(not_errored, counts)
       /\ summary.total_defects >= 0

C9_Witness ==
  /\ Summarised
  /\ Len(test_results) = 2
  /\ test_results[1].defect_count = -1
  /\ test_results[2].defect_count = MaxDefects
  /\ summary.total_defects = MaxDefects

(***************************************************************************)
(* C10: critical_failures is the number of results with status FAIL and    *)
(* severity CRITICAL, high_failures the number with status FAIL and        *)
(* severity HIGH; PASS and ERROR results of those severities do not count. *)
(***************************************************************************)
C10_SeverityCountsOnlyFailures ==
  Summarised =>
    LET failing(sev) ==
          {i \in 1..Len(test_results) :
             test_results[i].status = "FAIL" /\ test_results[i].severity = sev}
    IN /\ summary.critical_failures = Cardinality(failing("CRITICAL"))
       /\ summary.high_failures = Cardinality(failing("HIGH"))

C10_Witness ==
  /\ Summarised
  /\ Len(test_results) = 2
  /\ test_results[1].status = "ERROR" /\ test_results[1].severity = "CRITICAL"
  /\ test_results[2].status = "FAIL" /\ test_results[2].severity = "CRITICAL"
  /\ summary.critical_failures = 1

(***************************************************************************)
(* C11: execute_tests followed by get_summary on a batch of N CheckSpecs   *)
(* gives total_tests = N, passed = the number of checks whose query        *)
(* returned 0 rows, failed = the number whose query returned a row,        *)
(* errors = the number whose query raised, the three adding up to          *)
(* total_tests, and total_defects = the rows returned to the failed        *)
(* checks.                                                                 *)
(***************************************************************************)
C11_SummaryCountsQueryOutcomes ==
  (summary # NoSummary /\ Len(query_log) = Len(test_results)) =>
    LET all == 1..Len(query_log)
        nrows == [i \in all |-> query_log[i].nrows]
        empty == {i \in all : ~query_log[i].raised /\ nrows[i] = 0}
        defective == {i \in all : ~query_log[i].raised /\ nrows[i] > 0}
        raising == {i \in all : query_log[i].raised}
    IN /\ summary.total_tests = Len(test_definitions)
       /\ summary.passed = Cardinality(empty)
       /\ summary.failed = Cardinality(defective)
       /\ summary.errors = Cardinality(raising)
       /\ summary.passed + summary.failed + summary.errors = summary.total_tests
       /\ summary.total_defects = SumOver(defective, nrows)

(***************************************************************************)
(* C17: a query that returned n > 0 rows gives defect_count n and          *)
(* defect_examples rendering the first min(n, 5) rows in order, a row as   *)
(* key=value pairs joined by ", " and rows joined by "; "; for n = 0       *)
(* defect_examples is empty.                                               *)
(***************************************************************************)
RECURSIVE Rendered(_)
Rendered(k) ==
  IF k = 0 THEN ""
  ELSE (IF k = 1 THEN "" ELSE Rendered(k - 1) \o "; ")
         \o "id=" \o ToString(k) \o ", status=bad"

C17_ExamplesAreTheFirstFiveRows ==
  \A i \in 1..Len(test_results) :
    ~query_log[i].raised =>
      LET n == query_log[i].nrows IN
        /\ n > 0 => test_results[i].defect_count = n
        /\ test_results[i].defect_examples =
             Rendered(IF n < MAX_DEFECT_EXAMPLES THEN n ELSE MAX_DEFECT_EXAMPLES)

C17_Witness ==
  /\ Len(test_results) = 2
  /\ test_results[1].defect_count = 2
  /\ test_results[1].defect_examples = "id=1, status=bad; id=2, status=bad"
  /\ test_results[2].defect_count > MAX_DEFECT_EXAMPLES
  /\ test_results[2].defect_examples = Rendered(MAX_DEFECT_EXAMPLES)

(***************************************************************************)
(* C18: name, category, description, query and severity of every result    *)
(* (PASS, FAIL or ERROR) are those of the CheckSpec that produced it, the  *)
(* query submitted to the warehouse is the CheckSpec's query string, and   *)
(* execution leaves the CheckSpecs as they were.                           *)
(***************************************************************************)
ResultInheritsCheck ==
  \A i \in 1..Len(test_results) :
    LET check == test_definitions[i].fields
        result == test_results[i]
    IN /\ result.test_name = check["test_name"]
       /\ result.test_category = check["test_category"]
       /\ result.test_description = check["test_description"]
       /\ result.test_query = check["test_query"]
       /\ result.severity = check["severity"]
       /\ query_log[i].sql = check["test_query"]

C18_ResultInheritsCheckUnchanged ==
  /\ []ResultInheritsCheck
  /\ [][pc = "execute_tests" => test_definitions' = test_definitions]_vars

C18_Witness ==
  /\ pc = "get_summary"
  /\ Len(test_results) = 2
  /\ test_results[1].status = "ERROR"
  /\ test_results[2].status = "PASS"
  /\ test_results[2].test_description = "Unique Ids"
  /\ query_log[2].sql = "SELECT dup"

(***************************************************************************)
(* C20: every CheckSpec the generator retained has a severity that is one  *)
(* of CRITICAL, HIGH, MEDIUM, LOW, and so has every result.                *)
(***************************************************************************)
C20_SeverityInEnumeration ==
  /\ \A i \in 1..Len(test_definitions) :
       /\ test_definitions[i].kind = "obj"
       /\ test_definitions[i].fields["severity"] \in Severities
  /\ \A i \in 1..Len(test_results) : test_results[i].severity \in Severities

(***************************************************************************)
(* Vocabulary of the run's properties.  trace only grows by appending, so  *)
(* every prefix of a reachable trace is the trace of a reachable state and *)
(* a property of all pairs of events is stated on the last event against   *)
(* those before it.                                                        *)
(***************************************************************************)
NumModels == Len(main.models_to_audit)

Happened(ev, j) == \E k \in 1..Len(trace) : trace[k].ev = ev /\ trace[k].i = j

FailedAt(j) == Happened("caught", j)

ReturnedAt(j) == Happened("returned", j)

Ended == main.pc \in {"after_with", "returned", "raised"}

Opened == \E k \in 1..Len(trace) : trace[k].ev = "connect" /\ trace[k].ok

AuditSteps == {"collect", "invoke", "query", "report", "returned", "caught", "interrupt"}

Rank(e) ==
  CASE e.ev = "collect" -> 1
    [] e.ev = "invoke" -> 2
    [] e.ev = "query" -> 3
    [] e.ev = "report" -> 4
    [] e.ev \in {"returned", "caught", "interrupt"} -> 5

IsWarehouseCall(e) ==
  \/ e.ev \in {"test_connection", "query"}
  \/ e.ev = "collect" /\ e.arg \in {"get_table_metadata", "get_table_stats", "get_sample_data"}

LastEvent == trace[Len(trace)]

QueriesOf(j) == SelectSeq(trace, LAMBDA e : e.ev = "query" /\ e.i = j)

(***************************************************************************)
(* C12: an Exception of one dataset's audit (parsing, collection,          *)
(* generation, report writing) is caught: the loop moves to the next list  *)
(* position with the accumulated results and the connection as they were,  *)
(* every audit starts from the same fresh state on the open connection,    *)
(* and a loop that ends has started the audit of every list position.      *)
(***************************************************************************)
C12_AuditStartsFresh ==
  pc = "parse_model" =>
    /\ EnterAudit
    /\ main.pc = "audit"
    /\ main.connection = "open"
    /\ main.i \in 1..NumModels

C12_EveryDatasetAttempted ==
  main.pc = "after_with" =>
    \A j \in 1..NumModels :
      \E k \in 1..Len(trace) :
        trace[k].ev = "collect" /\ trace[k].arg = "parse_model" /\ trace[k].i = j

C12_FailureIsCaught ==
  (main.pc = "audit" /\ pc = "failed") =>
    /\ main'.pc = "loop"
    /\ main'.i = main.i + 1
    /\ main'.all_results = main.all_results
    /\ main'.connection = main.connection

C13_FailedDatasetLeavesNothing ==
  /\ \A j \in 1..NumModels :
       FailedAt(j) =>
         /\ \A r \in 1..Len(main.reports) : main.reports[r].i # j
         /\ \A a \in 1..Len(main.all_results) :
              main.all_results[a].key # main.models_to_audit[j]
  /\ main.pc = "after_with" =>
       {main.all_results[a].key : a \in 1..Len(main.all_results)}
         = {main.models_to_audit[j] : j \in {j \in 1..NumModels : ReturnedAt(j)}}

(***************************************************************************)
(* C14: the connection is opened at most once, every warehouse call        *)
(* happens while it is open, and whenever the run has ended after it was   *)
(* opened it is closed.                                                    *)
(***************************************************************************)
C14_ConnectionScopedToRun ==
  /\ Cardinality({k \in 1..Len(trace) : trace[k].ev = "connect"}) <= 1
  /\ (trace # <<>> /\ IsWarehouseCall(LastEvent)) =>
       /\ main.connection = "open"
       /\ ~Ended
  /\ (Ended /\ Opened) => main.connection = "closed"
  /\ ~Opened => main.connection = "none"

C14_Witness ==
  /\ main.pc = "raised"
  /\ Happened("interrupt", 1)
  /\ QueriesOf(1) # <<>>
  /\ main.connection = "closed"

(***************************************************************************)
(* C15: the steps of the audits happen in list order, one dataset after    *)
(* the other, within a dataset as collect, generate, queries, report, and  *)
(* a later dataset's first step comes after the earlier one's audit        *)
(* returned or failed; the queries of a dataset are the generator's        *)
(* checks' queries in the order returned.                                  *)
(***************************************************************************)
C15_StepsInOrder ==
  (trace # <<>> /\ LastEvent.ev \in AuditSteps) =>
    \A k \in 1..(Len(trace) - 1) :
      trace[k].ev \in AuditSteps =>
        /\ trace[k].i <= LastEvent.i
        /\ trace[k].i = LastEvent.i => Rank(trace[k]) <= Rank(LastEvent)
        /\ trace[k].i < LastEvent.i =>
             \E c \in k..(Len(trace) - 1) :
               /\ trace[c].i = trace[k].i
               /\ trace[c].ev \in {"returned", "caught"}

C15_QueriesInGeneratedOrder ==
  main.pc = "audit" =>
    LET q == QueriesOf(main.i) IN
      /\ Len(q) <= Len(test_definitions)
      /\ \A k \in 1..Len(q) : q[k].arg = test_definitions[k].fields["test_query"]

C15_SequentialInListOrder ==
  /\ C15_StepsInOrder
  /\ C15_QueriesInGeneratedOrder
  /\ \A k \in 1..Len(trace) :
       trace[k].ev \in {"report", "returned", "caught"} =>
         trace[k].arg = main.models_to_audit[trace[k].i]

C15_Witness ==
  /\ main.pc = "returned"
  /\ NumModels = 2
  /\ ReturnedAt(1)
  /\ ReturnedAt(2)
  /\ Len(QueriesOf(1)) = 2
  /\ Len(QueriesOf(2)) = 2
  /\ QueriesOf(2)[1].arg # QueriesOf(2)[2].arg

(***************************************************************************)
(* C16: a list position gets at most one inference call, and only after    *)
(* its four collection steps returned.                                     *)
(***************************************************************************)
C16_OneInferenceCallPerDataset ==
  (trace # <<>> /\ LastEvent.ev = "invoke") =>
    /\ \A k \in 1..(Len(trace) - 1) :
         trace[k].i = LastEvent.i =>
           /\ trace[k].ev # "invoke"
           /\ trace[k].ev = "collect" => trace[k].ok
    /\ \A s \in 1..Len(CollectSteps) :
         \E k \in 1..(Len(trace) - 1) :
           /\ trace[k].i = LastEvent.i
           /\ trace[k].ev = "collect"
           /\ trace[k].arg = CollectSteps[s]

C16_Witness ==
  /\ main.pc = "returned"
  /\ NumModels = 2
  /\ \E k \in 1..Len(trace) : trace[k].ev = "invoke" /\ trace[k].i = 1 /\ ~trace[k].ok
  /\ \E k \in 1..Len(trace) : trace[k].ev = "collect" /\ trace[k].i = 2 /\ ~trace[k].ok
  /\ ~Happened("invoke", 2)

(***************************************************************************)
(* C21: every result's execution_timestamp is a clock reading taken once   *)
(* its check's query has returned or raised, never one taken before the    *)
(* query was submitted.  The clock counts the seconds the timestamp shows. *)
(***************************************************************************)
C21_TimestampTakenAfterQuery ==
  \A k \in 1..Len(test_results) :
    k <= Len(query_log) =>
      test_results[k].execution_timestamp >= query_log[k].finished

(***************************************************************************)
(* C22: write_summary_report is called at most once, as the last call of   *)
(* the run, with the connection closed and every list position returned or *)
(* failed, and, for a run whose loop completed, exactly when more than one  *)
(* distinct dataset name completed; all_results holds one entry per such    *)
(* name, so a list naming one dataset twice gets no summary report.         *)
(***************************************************************************)
SummaryCalled == \E k \in 1..Len(trace) : trace[k].ev = "summary_report"

LoopCompleted == \A j \in 1..NumModels : ReturnedAt(j) \/ FailedAt(j)

CompletedNames == {main.models_to_audit[j] : j \in {p \in 1..NumModels : ReturnedAt(p)}}

C22_SummaryReportOnlyForSeveralDatasets ==
  /\ Cardinality({k \in 1..Len(trace) : trace[k].ev = "summary_report"}) <= 1
  /\ main.summary_report.written => SummaryCalled
  /\ SummaryCalled =>
       /\ LastEvent.ev = "summary_report"
       /\ main.connection = "closed"
       /\ LoopCompleted
       /\ Len(main.all_results) > 1
  /\ LoopCompleted => Len(main.all_results) = Cardinality(CompletedNames)
  /\ (main.pc \in {"returned", "raised"} /\ LoopCompleted) =>
       (SummaryCalled <=> Cardinality(CompletedNames) > 1)

C22_Witness ==
  /\ main.pc = "returned"
  /\ main.summary_report.written
  /\ main.summary_report.complete
  /\ Len(main.summary_report.rows) = 2
  /\ main.connection = "closed"

(* A run naming the same dataset twice, both audits returning. *)
C22_SameDatasetTwice ==
  /\ main.pc = "returned"
  /\ NumModels = 2
  /\ main.models_to_audit[1] = main.models_to_audit[2]
  /\ ReturnedAt(1)
  /\ ReturnedAt(2)
  /\ ~main.summary_report.written

(***************************************************************************)
(* C23: the row write_summary_report writes for a dataset holds, field by  *)
(* field, the summary get_summary returned for the same list of results.   *)
(***************************************************************************)
SummaryRowWritten == pc = "done" /\ main.summary_report.written

C23_SummaryRowEqualsGetSummary ==
  SummaryRowWritten =>
    LET row == main.summary_report.rows[1] IN
      /\ row.model_name = model_name
      /\ row.total_tests = summary.total_tests
      /\ row.passed = summary.passed
      /\ row.failed = summary.failed
      /\ row.errors = summary.errors
      /\ row.total_defects = summary.total_defects
      /\ row.critical_failures = summary.critical_failures
      /\ row.high_failures = summary.high_failures

C23_Witness ==
  /\ SummaryRowWritten
  /\ Len(test_results) = 2
  /\ test_results[1].status = "ERROR" /\ test_results[1].defect_count = -1
  /\ test_results[2].status = "FAIL" /\ test_results[2].severity = "HIGH"
  /\ test_results[2].defect_count = MaxDefects
  /\ main.summary_report.rows[1].total_defects = MaxDefects
  /\ main.summary_report.rows[1].high_failures = 1
  /\ main.summary_report.rows[1].errors = 1

(***************************************************************************)
(* C24: once the connection test has failed, by fetching something else    *)
(* than 1 or by raising, no collection step, inference call, check query,  *)
(* per-dataset report or summary report happens, nothing is accumulated,   *)
(* the run only leaves the with block and returns, and the connection is   *)
(* closed when it has.                                                     *)
(***************************************************************************)
ConnectionTestFailed ==
  \E k \in 1..Len(trace) : trace[k].ev = "test_connection" /\ ~trace[k].ok

C24_FailedConnectionTestEndsRun ==
  ConnectionTestFailed =>
    /\ \A k \in 1..Len(trace) : trace[k].ev \notin AuditSteps \cup {"summary_report"}
    /\ pc = "idle"
    /\ main.pc \in {"test_failed", "returned"}
    /\ main.all_results = <<>>
    /\ main.reports = <<>>
    /\ ~main.summary_report.written
    /\ main.pc = "returned" => main.connection = "closed"

C24_Witness ==
  /\ main.pc = "returned"
  /\ NumModels = 2
  /\ \E k \in 1..Len(trace) : trace[k].ev = "test_connection" /\ trace[k].arg = "raises"
  /\ main.connection = "closed"

====
